---- MODULE Spec2Model ----
(***************************************************************************)
(* Model of the classroom comfort-feedback application (Streamlit pages    *)
(* over a Supabase table and storage bucket).                              *)
(*                                                                         *)
(* Numbers.  clo values are Python floats with two decimals; the model     *)
(* keeps them as integers in hundredths of a clo (0.90 clo is 90).  The    *)
(* accessory multiplier 1.05 is 105 hundredths, so base * mult is an       *)
(* integer in ten-thousandths and round(x, 2) maps it back to hundredths.  *)
(*                                                                         *)
(* Strings.  Band labels are written with an ASCII hyphen where the source *)
(* has an en dash ("0.6-1.2 clo").                                         *)
(***************************************************************************)
EXTENDS Integers, Sequences, FiniteSets, TLC

VARIABLES
    \* ---- compute_clo as a function: its argument and its return value
    selected, clo_out,
    \* ---- section 5 of the form (app.py): widgets and derived values
    top_sel, leg_sel, outer_sel, feet_sel,
    clo_cont, clo_band_sel,
    clo_itemized, clo_detail, clo_value,
    \* ---- the other scored widgets of the form (sections 1, 2, 4-7)
    widgets,
    \* ---- section 8 of the form (who5_matrix): sliders and derived values
    answers, raw_sum, scaled, tip,
    \* ---- the backend: storage bucket, feedback table, uuid4 source
    bucket, feedback, next_uuid,
    \* ---- browser sessions on app.py or pages/03_Voice_Recorder.py
    HAS_AUDIOREC, page, audio_bytes, audio_mime, pc, fname, payload,
    calls, messages, clicks,
    \* ---- the reading pages: sensor table, st.cache_data, last script run
    sensor_readings, cache, view,
    \* ---- the clock, in seconds
    now,
    \* ---- the deployment: which optional packages can be imported, and
    \* whether the sensor table's ts column is a timestamptz
    installed, ts_aware

cloFnVars == <<selected, clo_out>>
formVars  == <<top_sel, leg_sel, outer_sel, feet_sel, clo_cont, clo_band_sel,
               clo_itemized, clo_detail, clo_value, widgets>>
whoVars   == <<answers, raw_sum, scaled, tip>>
backendVars == <<bucket, feedback, next_uuid>>
sessionVars == <<HAS_AUDIOREC, page, audio_bytes, audio_mime, pc, fname, payload,
                 calls, messages, clicks>>
submitVars  == <<backendVars, sessionVars>>
deployVars  == <<installed, ts_aware>>
pageVars    == <<sensor_readings, cache, view, now, deployVars>>
vars == <<cloFnVars, formVars, whoVars, submitVars, pageVars>>

(***************************************************************************)
(* Bounds of the model                                                     *)
(***************************************************************************)
\* longest argument list handed to compute_clo in SpecClo
MaxSelected == 2
\* most garments ticked at once in the form of SpecForm
MaxChosen == 1
\* most clicks on "Submit Feedback" / "Save voice feedback" in SpecSubmit
MaxClicks == 2
\* most rows the insert tester adds to sensor_readings
MaxSensorRows == 2
\* the row cap of a fetch (limit=2000 for feedback, limit=5000 for sensor
\* readings), scaled to the tables of the model
MaxFetched == 2
\* most steps of the clock in SpecDash
MaxTicks == 3
\* most feedback rows that arrive while the dashboard is watched in SpecDash
MaxArrivals == 1

(***************************************************************************)
(* Section 5: clothing tables                                              *)
(***************************************************************************)
ACCESSORY == "Tie or turtle-neck (+5%)"

\* app.py CLO_ITEMS, in hundredths of a clo
CLO_ITEMS ==
    ("Underwear (bra+panties/briefs)" :> 5) @@
    ("T-shirt / singlet" :> 9) @@
    ("Long underwear (upper)" :> 35) @@
    ("Long underwear (lower)" :> 35) @@
    ("Shirt, short sleeve (light)" :> 14) @@
    ("Shirt, long sleeve (light)" :> 22) @@
    ("Shirt, long sleeve (heavy)" :> 29) @@
    ("Blouse, light" :> 20) @@
    ("Dress, light" :> 22) @@
    ("Dress, heavy" :> 70) @@
    ("Vest, light" :> 15) @@
    ("Vest, heavy" :> 29) @@
    ("Skirt, light" :> 10) @@
    ("Skirt, heavy" :> 22) @@
    ("Trousers / slacks, light" :> 26) @@
    ("Trousers / slacks, heavy" :> 32) @@
    ("Pullover, light" :> 20) @@
    ("Pullover, heavy (thick sweater)" :> 37) @@
    ("Jacket, light" :> 22) @@
    ("Jacket, heavy" :> 49) @@
    ("Coat (indoor short coat)" :> 65) @@
    ("Socks, ankle length" :> 4) @@
    ("Socks, knee length" :> 10) @@
    ("Stockings / pantyhose" :> 1) @@
    ("Footwear: sandals" :> 2) @@
    ("Footwear: shoes" :> 4) @@
    ("Footwear: boots" :> 8) @@
    ("Tie or turtle-neck (+5%)" :> 0)

\* app.py CLO_BANDS, in hundredths of a clo
CLO_BANDS ==
    << <<"<0.5 clo", 45>>, <<"0.6-1.2 clo", 90>>, <<"1.3-1.7 clo", 150>>,
       <<"1.8-2.4 clo", 200>>, <<"2.5-3.4 clo", 290>>, <<">3.5 clo", 360>> >>

\* the options of the four multiselects of the itemized tab
TOP_OPTIONS ==
    {"Underwear (bra+panties/briefs)", "T-shirt / singlet", "Long underwear (upper)",
     "Shirt, short sleeve (light)", "Shirt, long sleeve (light)",
     "Shirt, long sleeve (heavy)", "Blouse, light", "Pullover, light",
     "Pullover, heavy (thick sweater)", "Vest, light", "Vest, heavy",
     "Tie or turtle-neck (+5%)"}
LEG_OPTIONS ==
    {"Long underwear (lower)", "Trousers / slacks, light", "Trousers / slacks, heavy",
     "Skirt, light", "Skirt, heavy"}
OUTER_OPTIONS == {"Jacket, light", "Jacket, heavy", "Coat (indoor short coat)"}
FEET_OPTIONS ==
    {"Socks, ankle length", "Socks, knee length", "Stockings / pantyhose",
     "Footwear: sandals", "Footwear: shoes", "Footwear: boots"}

(***************************************************************************)
(* Helpers on lists                                                        *)
(***************************************************************************)
Range(s) == {s[i] : i \in 1..Len(s)}
NoDup(s) == \A i, j \in 1..Len(s) : i # j => s[i] # s[j]
Remove(s, x) == SelectSeq(s, LAMBDA y : y # x)
\* the lists without repetition over S of length at most n
RECURSIVE Lists(_, _)
Lists(S, n) ==
    IF n = 0 THEN {<<>>}
    ELSE LET shorter == Lists(S, n - 1)
         IN  shorter \cup {Append(s, x) : s \in shorter, x \in S}

(***************************************************************************)
(* compute_clo (app.py 372-382)                                            *)
(***************************************************************************)
\* the loop of compute_clo from position i on, acc = [base, mult, details]
RECURSIVE compute_clo_loop(_, _, _)
compute_clo_loop(sel, i, acc) ==
    IF i > Len(sel) THEN acc
    ELSE LET item == sel[i]
         IN  IF item = ACCESSORY
             THEN compute_clo_loop(sel, i + 1,
                      [acc EXCEPT !.mult = 105,
                                  !.details = (item :> "+5%") @@ @])
             ELSE compute_clo_loop(sel, i + 1,
                      [acc EXCEPT !.base = @ + CLO_ITEMS[item],
                                  !.details = (item :> CLO_ITEMS[item]) @@ @])

\* round(x, 2) of x = p / 10000, as the set of hundredths it can return.
\* Off a tie the nearest hundredth is returned.  On an exact tie (p ends in
\* 50) the binary error of the float sum and product decides: Python
\* returns 0.11 for 0.10 * 1.05 and 0.73 for 0.70 * 1.05, and for one and
\* the same sum either neighbour, depending on the summands and their order.
round2(p) ==
    IF p % 100 = 50 THEN {p \div 100, p \div 100 + 1}
    ELSE {(p + 50) \div 100}

\* the mutant of compute_clo that forgets the +5% of the accessory
compute_clo_no_mult(sel) ==
    LET acc == compute_clo_loop(sel, 1, [base |-> 0, mult |-> 100, details |-> <<>>])
    IN  {<<r, acc.details>> : r \in round2(acc.base * 100)}

\* compute_clo(selected): the pairs (total, details) it can return
compute_clo(sel) ==
    LET acc == compute_clo_loop(sel, 1, [base |-> 0, mult |-> 100, details |-> <<>>])
    IN  {<<r, acc.details>> : r \in round2(acc.base * acc.mult)}

(***************************************************************************)
(* Final clo of the form (app.py 408-411)                                  *)
(***************************************************************************)
\* pictogram_clo_picker returns band_to_value[st.session_state[state_key]]
band_to_value(key) ==
    LET i == CHOOSE j \in 1..Len(CLO_BANDS) : CLO_BANDS[j][1] = key
    IN  CLO_BANDS[i][2]

\* the mutant of final_clo that prefers the band picker to the slider
final_clo_band_first(chosen_items, itemized, cont, quick) ==
    IF chosen_items # <<>> THEN itemized
    ELSE (IF quick # 0 THEN quick ELSE cont)

\* the mutant of final_clo without the fall-back to the band picker
final_clo_no_band(chosen_items, itemized, cont, quick) ==
    IF chosen_items # <<>> THEN itemized ELSE cont

\* the mutant of final_clo that lets the slider win over ticked garments
final_clo_scale_first(chosen_items, itemized, cont, quick) ==
    IF cont # 0 THEN cont ELSE (IF chosen_items # <<>> THEN itemized ELSE quick)

\* clo_value = clo_itemized if chosen_items else
\*             (clo_from_scale if clo_from_scale else clo_quick_fallback)
\* clo_cont and clo_quick are always bound when line 409 runs (the tabs'
\* bodies always execute), so the two 0.9 defaults are never taken.
final_clo(chosen_items, itemized, cont, quick) ==
    IF chosen_items # <<>> THEN itemized
    ELSE (IF cont # 0 THEN cont ELSE quick)

(***************************************************************************)
(* who5_matrix (app.py 129-167)                                            *)
(***************************************************************************)
WHO_KEYS == <<"who1", "who2", "who3", "who4", "who5">>
WHO_SCORES == 0..5

TIP_ACCEPTABLE == ">= 50 suggests acceptable well-being."
TIP_REDUCED    == "< 50 suggests reduced well-being; consider follow-up."
TIP_CUTOFF     == " **< 28 is a common depression-screening cut-off.**"

\* sum(answers.values()), over the items in their order of insertion
RECURSIVE who5_sum(_, _)
who5_sum(ans, i) ==
    IF i > Len(WHO_KEYS) THEN 0 ELSE ans[WHO_KEYS[i]] + who5_sum(ans, i + 1)

\* the mutant of who5_scaled that scales a raw sum by 5
who5_scaled_by_five(raw) == raw * 5

\* scaled = raw_sum * 4
who5_scaled(raw) == raw * 4

\* the mutant of who5_tip whose cut-off adds the note at 28 as well
who5_tip_cutoff_le(sc) ==
    LET tip0 == <<TIP_ACCEPTABLE>>
        tip1 == IF sc < 50 THEN <<TIP_REDUCED>> ELSE tip0
    IN  IF sc <= 28 THEN Append(tip1, TIP_CUTOFF) ELSE tip1

\* the caption: the list of the sentences put together by lines 160-164
who5_tip(sc) ==
    LET tip0 == <<TIP_ACCEPTABLE>>
        tip1 == IF sc < 50 THEN <<TIP_REDUCED>> ELSE tip0
    IN  IF sc < 28 THEN Append(tip1, TIP_CUTOFF) ELSE tip1

\* who5_matrix() on the slider values ans: what it returns and displays
who5_matrix(ans) ==
    LET raw == who5_sum(ans, 1)
        sc  == who5_scaled(raw)
    IN  [answers |-> ans, raw_sum |-> raw, scaled |-> sc, tip |-> who5_tip(sc)]

(***************************************************************************)
(* The scored widgets of sections 1, 2, 4, 5 (activity), 6 and 7 of the    *)
(* form, and the record that "Submit Feedback" builds (app.py 507-546).    *)
(* Free-text fields and unscored radios are left out of the record.        *)
(* met values are in tenths of a met (1.2 met is 12).                      *)
(***************************************************************************)
\* Python's None, for an id or a path and for a mime type
None == 0
NULL_MIME == "null"

\* kss_opts: a label is "<n> - <text>", kept as the pair of its two parts
KSS_OPTS ==
    << <<1, "Extremely alert">>, <<2, "Very alert">>, <<3, "Alert">>,
       <<4, "Rather alert">>, <<5, "Neither alert nor sleepy">>,
       <<6, "Some signs of sleepiness">>,
       <<7, "Sleepy, but no effort to stay awake">>,
       <<8, "Sleepy, some effort to stay awake">>,
       <<9, "Very sleepy, great effort to stay awake, fighting sleep">> >>

\* the mutant of kss_score that takes the position of the label, from 0
kss_score_from_index(label) ==
    (CHOOSE i \in 1..Len(KSS_OPTS) : KSS_OPTS[i] = label) - 1

\* kss_score = int(kss_label.split(" - ")[0])
kss_score(label) == label[1]

\* the options of the activity select box and the dict behind met_value
ACTIVITIES ==
    <<"Seated, relaxed (1.0 met)", "Seated, working (1.2 met)",
      "Standing, light movement (1.4 met)", "Walking slowly (1.7 met)">>
met_value(activity) ==
    (("Seated, relaxed (1.0 met)" :> 10) @@ ("Seated, working (1.2 met)" :> 12) @@
     ("Standing, light movement (1.4 met)" :> 14) @@
     ("Walking slowly (1.7 met)" :> 17))[activity]

\* the ten symptom questions and the seven satisfaction questions
SYMPTOM_IDX == 1..10
SAT_KEYS == {"overall", "privacy", "layout", "appearance", "airmove", "clean", "view"}

\* f"{key_prefix}{idx:02d}" with key_prefix "symptom"
symptom_key(idx) ==
    IF idx < 10 THEN "symptom0" \o ToString(idx) ELSE "symptom" \o ToString(idx)
\* f"{key_prefix}_{key}" with key_prefix "sat"
sat_key(key) == "sat_" \o key

\* yes_no_matrix: out[key] = (v == "Yes") for the radio of each question
yes_no_matrix(radios) ==
    [k \in {symptom_key(i) : i \in SYMPTOM_IDX} |->
        LET i == CHOOSE j \in SYMPTOM_IDX : symptom_key(j) = k
        IN  radios[i] = "Yes"]

\* likert_matrix: out[key] = int(score) for the slider of each question
likert_matrix(sliders) ==
    [k \in {sat_key(q) : q \in SAT_KEYS} |->
        LET q == CHOOSE x \in SAT_KEYS : sat_key(x) = k
        IN  sliders[q]]

\* the widgets as a first run of the script draws them
WIDGET_DEFAULTS ==
    [thermal_sensation |-> 0,
     glare_rating      |-> 2,
     kss_label         |-> KSS_OPTS[3],
     activity          |-> ACTIVITIES[2],
     symptom           |-> [i \in SYMPTOM_IDX |-> "No"],
     sat               |-> [q \in SAT_KEYS |-> 3]]

\* app.py 507-546: the payload before the audio fields are merged in
\* (payload.update(d) lets the keys of d win)
build_payload(id, w, clo, chosen_items, detail, band_sel, who_raw, who_sc) ==
    likert_matrix(w.sat) @@ yes_no_matrix(w.symptom) @@
    [id                  |-> id,
     thermal_sensation   |-> w.thermal_sensation,
     glare_rating        |-> w.glare_rating,
     kss_score           |-> kss_score(w.kss_label),
     clo_value           |-> clo,
     clothing_detail     |-> IF chosen_items # <<>> THEN chosen_items ELSE <<band_sel>>,
     clothing_detail_map |-> IF chosen_items # <<>> THEN detail ELSE <<>>,
     met_value           |-> met_value(w.activity),
     who5_raw_sum        |-> who_raw,
     who5_scaled_0_100   |-> who_sc,
     audio_path          |-> None,
     audio_mime          |-> NULL_MIME]

(***************************************************************************)
(* Submission: the voice note and "Submit Feedback" of app.py (477-573)    *)
(* and "Save voice feedback" of pages/03_Voice_Recorder.py (26-79).        *)
(*                                                                         *)
(* A uuid4 is a fresh positive integer; an object path "voice/<ts>_<uuid>  *)
(* .wav" is the integer of its uuid.  None is 0 for a path and "null" for  *)
(* a mime type.  A backend call either returns or raises; a call that      *)
(* raises leaves the backend as it was.                                    *)
(***************************************************************************)
Sessions == {"s1", "s2"}

\* no payload has been built in the current script run
NoPayload == [id |-> None, audio_path |-> None, audio_mime |-> NULL_MIME]

\* app.py 480-498: audio_bytes and audio_mime of one script run, from the
\* value of the recorder component (raw) or of the file uploader (upload)
voice_note(has_audiorec, raw, upload) ==
    IF has_audiorec
    THEN [audio_bytes |-> IF raw = "bytes" THEN raw ELSE "None",
          audio_mime  |-> "audio/wav"]
    ELSE IF upload.content = "None"
         THEN [audio_bytes |-> "None", audio_mime |-> "audio/wav"]
         ELSE [audio_bytes |-> upload.content,
               audio_mime  |-> IF upload.type # "" THEN upload.type ELSE "audio/wav"]

\* what audio_recorder(...) can return, and what st.file_uploader can hold
RAW_VALUES == {"None", "empty", "bytes"}
\* (no file is content "None")
UPLOAD_VALUES ==
    {[content |-> "None", type |-> ""]}
    \cup [content : {"empty", "bytes"}, type : {"", "audio/mpeg"}]

\* only the widget that app.py 485-498 renders has a value
NO_UPLOAD == [content |-> "None", type |-> ""]
WIDGET_VALUES ==
    IF HAS_AUDIOREC THEN [raw : RAW_VALUES, upload : {NO_UPLOAD}]
    ELSE [raw : {"None"}, upload : UPLOAD_VALUES]

\* the mutant of truthy that takes an empty upload for audio
truthy_not_none(bytes) == bytes # "None"

\* `if audio_bytes:` -- None and b"" are falsy
truthy(bytes) == bytes = "bytes"

\* the mutant of merged_audio that names the object of a failed upload
merged_audio_keeps_path(ok, path, mime) ==
    [audio_path |-> path, audio_mime |-> mime]

\* the mutant of merged_audio that keeps the mime type of a failed upload
merged_audio_keeps_mime(ok, path, mime) ==
    [audio_path |-> IF ok THEN path ELSE None, audio_mime |-> mime]

\* app.py 557-562: audio_path is fname after an upload that returned, None
\* otherwise; audio_mime is kept only with a path
merged_audio(ok, path, mime) ==
    [audio_path |-> IF ok THEN path ELSE None,
     audio_mime |-> IF ok THEN mime ELSE NULL_MIME]

\* the mutant of voice_fname that leaves the uuid out of the object name
voice_fname_without_uuid(u) == 1

\* f"voice/{utc time}_{uuid.uuid4().hex}.wav": the object name, one per uuid
voice_fname(u) == u

\* the mutant of after_failed_insert that asks for the insert again
after_failed_insert_retry(p) == "insert"

\* app.py 572-573: the except arm reports and the script run ends
after_failed_insert(p) == "idle"

\* the mutant of bucket_after_failed_insert that removes the uploaded object
bucket_after_failed_insert_cleanup(b, path) == b \ {path}

\* neither page touches the bucket after an insert that raised
bucket_after_failed_insert(b, path) == b

\* the mutant of recorder_steps that inserts the row before the upload
recorder_steps_insert_first == <<"rec_insert", "rec_upload">>

\* pages/03_Voice_Recorder.py 57-76: 1) upload audio, 2) insert row
recorder_steps == <<"rec_upload", "rec_insert">>

\* the mutant of insert_row that writes the row over the rows of the table
insert_row_replacing(table, row) == {row}

\* supabase.table(T).insert(row).execute() that returned: the table gains
\* the row, and no row it held is touched
insert_row(table, row) == table \cup {row}

Call(op, path, id, ok) == [op |-> op, path |-> path, id |-> id, ok |-> ok]

SubmitIdle ==
    /\ bucket = {}
    /\ feedback = {}
    /\ next_uuid = 1
    /\ HAS_AUDIOREC = TRUE
    /\ page = [s \in Sessions |-> "app"]
    /\ audio_bytes = [s \in Sessions |-> "None"]
    /\ audio_mime = [s \in Sessions |-> "audio/wav"]
    /\ pc = [s \in Sessions |-> "idle"]
    /\ fname = [s \in Sessions |-> None]
    /\ payload = [s \in Sessions |-> NoPayload]
    /\ calls = [s \in Sessions |-> <<>>]
    /\ messages = [s \in Sessions |-> <<>>]
    /\ clicks = 0

(***************************************************************************)
(* The reading pages.  One script run of a page is one action; the         *)
(* outcome of each backend call of the run (it returns or it raises) is an *)
(* input of the action.  view is what the run left in the browser:         *)
(*   outcome   "rendered" (ran to the last line), "stopped" (st.stop()),   *)
(*             "aborted" (an exception left the script)                    *)
(*   uncaught  the call or statement whose exception left the script       *)
(*   shown     the messages put on the page                                *)
(*   df        the rows the run worked on                                  *)
(*   audio     per listed recording, how it was rendered                   *)
(*   voice     the widget offered for a voice note: "recorder", "uploader" *)
(*   after_probe  the run went on to the line after the page's probe       *)
(*   at        the time of the run                                         *)
(*   called    the run issued the row select of the cached fetch function  *)
(*   fetched_at  the time of the select that df came from                  *)
(*   cleared   the run reached a st.cache_data.clear()                     *)
(*   filter    the values of the filter widgets (days back, two selects)   *)
(*   rows      the rows of df that pass the filters (the code's `view`)    *)
(***************************************************************************)
\* the kinds of backend call the pages make
BACKEND_CALLS == {"select", "insert", "upload", "create_signed_url"}

NoView == [page |-> "none", outcome |-> "none", uncaught |-> "none",
           shown |-> {}, df |-> {}, audio |-> <<>>, voice |-> "none",
           after_probe |-> FALSE, at |-> 0, called |-> FALSE, fetched_at |-> 0,
           cleared |-> FALSE, urls |-> <<>>,
           filter |-> [days_back |-> 0, a |-> "(all)", b |-> "(all)"], rows |-> {}]

\* st.cache_data: per cached function, "miss" or the value it returned and
\* the time at which it was stored
MISS == [hit |-> FALSE, rows |-> {}, at |-> 0]
Cached(rows, t) == [hit |-> TRUE, rows |-> rows, at |-> t]
NoCache == [feedback |-> MISS, sensors |-> MISS]

\* the optional packages: app.py 35 imports the first inside try/except,
\* pages/03_Voice_Recorder.py 6-7 imports the other two
OPTIONAL_DEPS == {"audio_recorder_streamlit", "audiorecorder", "speech_recognition"}

PagesIdle ==
    /\ sensor_readings = {}
    /\ cache = NoCache
    /\ view = NoView
    /\ now = 0
    /\ installed = OPTIONAL_DEPS
    /\ ts_aware = FALSE

\* app.py 33-38: try: from audio_recorder_streamlit import audio_recorder
\* ... HAS_AUDIOREC = True; except Exception: HAS_AUDIOREC = False
has_audiorec(inst) == "audio_recorder_streamlit" \in inst

\* app.py 485-498: the widget of section 9
voice_widget(has) == IF has THEN "recorder" ELSE "uploader"

\* pages/03_Voice_Recorder.py 6-7: the first import statement that raises
\* ModuleNotFoundError, "none" when both modules are found
recorder_import_error(inst) ==
    IF "audiorecorder" \notin inst THEN "from audiorecorder import audiorecorder"
    ELSE IF "speech_recognition" \notin inst THEN "import speech_recognition as sr"
    ELSE "none"

\* the probe at the top of a page: try: select ... except: st.error(...)
probe_shown(ok) == IF ok THEN {} ELSE {"Supabase probe failed"}

\* Time is in seconds.  ttl=60 of @st.cache_data; an entry of age 60 or
\* more is dropped by the cache before it is looked up
TTL == 60
\* pd.Timedelta(days=1) and timedelta(days=1)
DAY == 86400

\* st.cache_data looks the entry up at time t
fresh(c, t) == c.hit /\ t - c.at < TTL

\* .order(<time column>, desc=True).limit(limit): the limit rows with the
\* latest times (no two rows of the model share a time)
top_rows(table, limit) ==
    {r \in table : Cardinality({q \in table : q.ts > r.ts}) < limit}

\* the mutant of fetch_feedback that hands out a stored value of any age
fetch_feedback_no_ttl(c, table, ok, t) ==
    IF c.hit THEN [raised |-> FALSE, called |-> FALSE, df |-> c.rows, cache |-> c]
    ELSE IF ok THEN [raised |-> FALSE, called |-> TRUE, df |-> top_rows(table, MaxFetched),
                     cache |-> Cached(top_rows(table, MaxFetched), t)]
    ELSE [raised |-> TRUE, called |-> TRUE, df |-> {}, cache |-> MISS]

\* pages/01_Dashboard.py 44-64, @st.cache_data(ttl=60) def fetch_feedback:
\* a stored value younger than the ttl is returned without a call;
\* otherwise the select is issued, and its exception, if any, leaves the
\* function and nothing is stored
fetch_feedback(c, table, ok, t) ==
    IF fresh(c, t)
    THEN [raised |-> FALSE, called |-> FALSE, df |-> c.rows, cache |-> c]
    ELSE IF ok THEN [raised |-> FALSE, called |-> TRUE, df |-> top_rows(table, MaxFetched),
                     cache |-> Cached(top_rows(table, MaxFetched), t)]
    ELSE [raised |-> TRUE, called |-> TRUE, df |-> {}, cache |-> MISS]

\* the mutant of cache_after_test_insert that keeps the stored entries
cache_after_test_insert_kept(c) == c

\* 02_Sensors.py 95: st.cache_data.clear() after the insert returned
cache_after_test_insert(c) == NoCache

\* 02_Sensors.py 13-24, @st.cache_data(ttl=60) def fetch_sensors: as above
fetch_sensors(c, table, ok, t) ==
    IF fresh(c, t)
    THEN [raised |-> FALSE, called |-> FALSE, df |-> c.rows, cache |-> c]
    ELSE IF ok THEN [raised |-> FALSE, called |-> TRUE, df |-> top_rows(table, MaxFetched),
                     cache |-> Cached(top_rows(table, MaxFetched), t)]
    ELSE [raised |-> TRUE, called |-> TRUE, df |-> {}, cache |-> MISS]

ALL == "(all)"

\* st.selectbox(label, options): a value that is no option any more falls
\* back to the first option, "(all)"
selectbox(options, value) == IF value \in options THEN value ELSE ALL

\* the mutant of dashboard_mask that forgets the time window
dashboard_mask_no_window(df, t, days_back, room_sel, clothing_sel) ==
    {r \in df :
        /\ room_sel # ALL => r.room = room_sel
        /\ clothing_sel # ALL => r.clothing = clothing_sel}

\* pages/01_Dashboard.py 83-91: cutoff and mask, view = df.loc[mask]
dashboard_mask(df, t, days_back, room_sel, clothing_sel) ==
    {r \in df :
        /\ r.ts >= t - days_back * DAY
        /\ room_sel # ALL => r.room = room_sel
        /\ clothing_sel # ALL => r.clothing = clothing_sel}

\* 02_Sensors.py 46-52: cut and mask, view = df.loc[mask]
sensors_mask(df, t, days_back, dev_sel, room_sel) ==
    {r \in df :
        /\ r.ts >= t - days_back * DAY
        /\ dev_sel # ALL => r.device_id = dev_sel
        /\ room_sel # ALL => r.room = room_sel}

\* one script run of pages/01_Dashboard.py at time t on cache c: the two
\* probes (16-20, 33-37), fetch_feedback() (66), the empty state (67-69),
\* the filters (72-91), the second empty state (92-94), the page
DashboardRun(c, table, t, in, w) ==
    LET f     == fetch_feedback(c.feedback, table, in.sel, t)
        shown == probe_shown(in.p1) \cup probe_shown(in.p2)
        v     == [NoView EXCEPT !.page = "pages/01_Dashboard.py", !.shown = shown,
                                !.after_probe = TRUE, !.at = t,
                                !.called = f.called]
        room_sel     == selectbox({ALL} \cup {r.room : r \in f.df}, w.room)
        clothing_sel == selectbox({ALL} \cup {r.clothing : r \in f.df}, w.clothing)
        rows  == dashboard_mask(f.df, t, w.days_back, room_sel, clothing_sel)
        vf    == [v EXCEPT !.df = f.df, !.fetched_at = f.cache.at,
                           !.filter = [days_back |-> w.days_back, a |-> room_sel,
                                       b |-> clothing_sel]]
    IN  [cache |-> [c EXCEPT !.feedback = f.cache],
         view  |-> IF f.raised
                   THEN [v EXCEPT !.outcome = "aborted", !.uncaught = "select"]
                   ELSE IF f.df = {}
                   THEN [vf EXCEPT !.outcome = "stopped",
                                   !.shown = @ \cup {"No feedback yet."}]
                   ELSE IF rows = {}
                   THEN [vf EXCEPT !.outcome = "stopped",
                                   !.shown = @ \cup {"No rows match the current filters."}]
                   ELSE [vf EXCEPT !.outcome = "rendered", !.rows = rows]]

\* one script run of 02_Sensors.py at time t down to the tester's button:
\* fetch_sensors() (28), the empty state with st.stop() (29-31), the filters
\* (34-52), charts, expander.  pd.to_datetime (23) keeps the offset of a
\* timestamptz column, and comparing such a column with the naive
\* datetime.utcnow() - timedelta(...) of line 46 raises TypeError (47).
SensorsRun(c, table, t, sel, aware, w) ==
    LET f == fetch_sensors(c.sensors, table, sel, t)
        v == [NoView EXCEPT !.page = "02_Sensors.py", !.at = t, !.called = f.called]
        dev_sel  == selectbox({ALL} \cup {r.device_id : r \in f.df}, w.device)
        room_sel == selectbox({ALL} \cup {r.room : r \in f.df}, w.room)
        vf == [v EXCEPT !.df = f.df, !.fetched_at = f.cache.at,
                        !.filter = [days_back |-> w.days_back, a |-> dev_sel,
                                    b |-> room_sel]]
    IN  [cache |-> [c EXCEPT !.sensors = f.cache],
         view  |-> IF f.raised
                   THEN [v EXCEPT !.outcome = "aborted", !.uncaught = "select"]
                   ELSE IF f.df = {}
                   THEN [vf EXCEPT !.outcome = "stopped",
                                   !.shown = {"No sensor data yet."}]
                   ELSE IF aware
                   THEN [vf EXCEPT !.outcome = "aborted", !.uncaught = "TypeError"]
                   ELSE [vf EXCEPT !.outcome = "rendered",
                                   !.rows = sensors_mask(f.df, t, w.days_back,
                                                         dev_sel, room_sel)]]

\* what one listed recording's URL calls can do
URL_OUTCOMES == [signed : {"url", "no url", "raise"}, public : {"url", "raise"}]

\* pages/03_Voice_Playback.py 77-93, for one row with an audio_path
render_03(u) ==
    IF u.signed = "url" THEN "audio(signed)"
    ELSE IF u.public = "raise" THEN "Could not load audio"
    ELSE IF u.signed = "no url" THEN "audio(public)"
    ELSE "audio(public) + caption"

\* pages/04_Voice_Playback.py 85-91, for one row with an audio_path
render_04(u) ==
    IF u.signed = "raise" THEN "Could not create signed URL"
    ELSE IF u.signed = "url" THEN "audio(signed)"
    ELSE "audio(None)"

\* .not_.is_("audio_path", "null"), with both filters left empty
with_audio(table) == {r \in table : r.audio_path # None}

(***************************************************************************)
(* SpecClo: compute_clo applied to every bounded argument                  *)
(***************************************************************************)
FormIdle ==
    /\ top_sel = <<>> /\ leg_sel = <<>> /\ outer_sel = <<>> /\ feet_sel = <<>>
    /\ clo_cont = 90
    /\ clo_band_sel = CLO_BANDS[2][1]
    /\ clo_itemized = 0
    /\ clo_detail = <<>>
    /\ clo_value = 90
    /\ widgets = WIDGET_DEFAULTS

\* the WHO-5 sliders at their default 3
WhoIdle ==
    /\ answers = [k \in Range(WHO_KEYS) |-> 3]
    /\ raw_sum = 15
    /\ scaled = 60
    /\ tip = <<TIP_ACCEPTABLE>>

CloFnIdle ==
    /\ selected = <<>>
    /\ clo_out = <<>>

InitClo ==
    /\ selected \in Lists(DOMAIN CLO_ITEMS, MaxSelected)
    /\ NoDup(selected)
    /\ clo_out = <<>>
    /\ FormIdle
    /\ WhoIdle
    /\ SubmitIdle
    /\ PagesIdle

CallComputeClo ==
    /\ clo_out = <<>>
    /\ \E out \in compute_clo(selected) : clo_out' = out
    /\ UNCHANGED <<selected, formVars, whoVars, submitVars, pageVars>>

NextClo == CallComputeClo

SpecClo == InitClo /\ [][NextClo]_vars

(***************************************************************************)
(* SpecForm: the clothing section of the form.  Every widget interaction   *)
(* reruns the script, which recomputes clo_itemized, clo_detail and        *)
(* clo_value from the widget values (app.py 294-299, 315, 404-411).        *)
(***************************************************************************)
\* values of st.slider("Clothing insulation (clo)", 0.0, 1.4, 0.9, 0.05)
CLO_CONT_VALUES == {5 * k : k \in 0..28}
BAND_KEYS == {CLO_BANDS[i][1] : i \in 1..Len(CLO_BANDS)}

NumChosen == Len(top_sel) + Len(leg_sel) + Len(outer_sel) + Len(feet_sel)

\* one run of section 5 on the widget values t, l, o, f (multiselects),
\* c (slider) and b (st.session_state["clo_band_sel"])
RunSection5(t, l, o, f, c, b) ==
    LET chosen_items == t \o l \o o \o f
        clo_quick    == band_to_value(b)
    IN  \E out \in compute_clo(chosen_items) :
            /\ clo_itemized' = out[1]
            /\ clo_detail' = out[2]
            /\ clo_value' = final_clo(chosen_items, out[1], c, clo_quick)

InitForm ==
    /\ CloFnIdle
    /\ FormIdle
    /\ WhoIdle
    /\ SubmitIdle
    /\ PagesIdle

\* st.multiselect: an option is added at the end of the widget's list
TickTop(item) ==
    /\ NumChosen < MaxChosen
    /\ item \notin Range(top_sel)
    /\ top_sel' = Append(top_sel, item)
    /\ UNCHANGED <<leg_sel, outer_sel, feet_sel, clo_cont, clo_band_sel>>
    /\ RunSection5(top_sel', leg_sel, outer_sel, feet_sel, clo_cont, clo_band_sel)
    /\ UNCHANGED <<widgets, cloFnVars, whoVars, submitVars, pageVars>>

TickLeg(item) ==
    /\ NumChosen < MaxChosen
    /\ item \notin Range(leg_sel)
    /\ leg_sel' = Append(leg_sel, item)
    /\ UNCHANGED <<top_sel, outer_sel, feet_sel, clo_cont, clo_band_sel>>
    /\ RunSection5(top_sel, leg_sel', outer_sel, feet_sel, clo_cont, clo_band_sel)
    /\ UNCHANGED <<widgets, cloFnVars, whoVars, submitVars, pageVars>>

TickOuter(item) ==
    /\ NumChosen < MaxChosen
    /\ item \notin Range(outer_sel)
    /\ outer_sel' = Append(outer_sel, item)
    /\ UNCHANGED <<top_sel, leg_sel, feet_sel, clo_cont, clo_band_sel>>
    /\ RunSection5(top_sel, leg_sel, outer_sel', feet_sel, clo_cont, clo_band_sel)
    /\ UNCHANGED <<widgets, cloFnVars, whoVars, submitVars, pageVars>>

TickFeet(item) ==
    /\ NumChosen < MaxChosen
    /\ item \notin Range(feet_sel)
    /\ feet_sel' = Append(feet_sel, item)
    /\ UNCHANGED <<top_sel, leg_sel, outer_sel, clo_cont, clo_band_sel>>
    /\ RunSection5(top_sel, leg_sel, outer_sel, feet_sel', clo_cont, clo_band_sel)
    /\ UNCHANGED <<widgets, cloFnVars, whoVars, submitVars, pageVars>>

\* st.multiselect: an option is removed from whichever list holds it
Untick(item) ==
    /\ item \in Range(top_sel \o leg_sel \o outer_sel \o feet_sel)
    /\ top_sel' = Remove(top_sel, item)
    /\ leg_sel' = Remove(leg_sel, item)
    /\ outer_sel' = Remove(outer_sel, item)
    /\ feet_sel' = Remove(feet_sel, item)
    /\ UNCHANGED <<clo_cont, clo_band_sel>>
    /\ RunSection5(top_sel', leg_sel', outer_sel', feet_sel', clo_cont, clo_band_sel)
    /\ UNCHANGED <<widgets, cloFnVars, whoVars, submitVars, pageVars>>

\* the continuous slider is dragged to v
MoveCloCont(v) ==
    /\ v # clo_cont
    /\ clo_cont' = v
    /\ UNCHANGED <<top_sel, leg_sel, outer_sel, feet_sel, clo_band_sel>>
    /\ RunSection5(top_sel, leg_sel, outer_sel, feet_sel, v, clo_band_sel)
    /\ UNCHANGED <<widgets, cloFnVars, whoVars, submitVars, pageVars>>

\* a "Select" button of the picture selector is clicked (app.py 199-202)
SelectBand(key) ==
    /\ clo_band_sel' = key
    /\ UNCHANGED <<top_sel, leg_sel, outer_sel, feet_sel, clo_cont>>
    /\ RunSection5(top_sel, leg_sel, outer_sel, feet_sel, clo_cont, key)
    /\ UNCHANGED <<widgets, cloFnVars, whoVars, submitVars, pageVars>>

NextForm ==
    \/ \E item \in TOP_OPTIONS : TickTop(item)
    \/ \E item \in LEG_OPTIONS : TickLeg(item)
    \/ \E item \in OUTER_OPTIONS : TickOuter(item)
    \/ \E item \in FEET_OPTIONS : TickFeet(item)
    \/ \E item \in DOMAIN CLO_ITEMS : Untick(item)
    \/ \E v \in CLO_CONT_VALUES : MoveCloCont(v)
    \/ \E key \in BAND_KEYS : SelectBand(key)

SpecForm == InitForm /\ [][NextForm]_vars

(***************************************************************************)
(* Claims on the clothing estimator                                        *)
(***************************************************************************)
RECURSIVE SumOf(_)
SumOf(s) == IF s = <<>> THEN 0 ELSE CLO_ITEMS[Head(s)] + SumOf(Tail(s))

\* the exact product base * multiplier, in ten-thousandths of a clo
ExactClo(s) == SumOf(s) * (IF ACCESSORY \in Range(s) THEN 105 ELSE 100)

\* C1: for every duplicate-free list of CLO_ITEMS keys, the total returned
\* by compute_clo is the sum of the listed table values times 1.05 if the
\* accessory is listed and times 1.0 otherwise, rounded to two decimals:
\* a hundredth at distance at most half a hundredth from the exact product.
C1_ComputeCloRoundedSum ==
    clo_out # <<>> =>
        (100 * clo_out[1] - ExactClo(selected)) \in -50..50

\* C1 witness: the accessory is listed with a garment and raised the total
C1_Witness ==
    /\ clo_out # <<>>
    /\ Len(selected) = 2
    /\ ACCESSORY \in Range(selected)
    /\ clo_out[1] > SumOf(selected)

ChosenItems == top_sel \o leg_sel \o outer_sel \o feet_sel

\* C4: whenever at least one garment is ticked in the itemized tab, the
\* accessory alone included, the final clo_value is the itemized result of
\* compute_clo, whatever the slider and the band are.
C4_ItemizedWins ==
    ChosenItems # <<>> =>
        /\ clo_value = clo_itemized
        /\ <<clo_itemized, clo_detail>> \in compute_clo(ChosenItems)
        /\ (100 * clo_value - ExactClo(ChosenItems)) \in -50..50

\* C4 witness: only the accessory is ticked, the slider is off its default
\* and off zero, and a band other than the default is selected
C4_Witness ==
    /\ ChosenItems = <<ACCESSORY>>
    /\ clo_cont = 140
    /\ clo_band_sel = ">3.5 clo"
    /\ clo_value = 0

\* C5 as stated: with the band "0.6-1.2 clo" selected and no garment
\* ticked, the final clo_value is 0.90.
C5_Original ==
    (clo_band_sel = "0.6-1.2 clo" /\ ChosenItems = <<>>) => clo_value = 90

\* C5 amended: with the band "0.6-1.2 clo" selected and no garment ticked,
\* the final clo_value is the slider's value when that is not 0.0 and 0.90
\* when it is 0.0; so it is 0.90 exactly when the slider is at 0.0 or 0.90.
C5_BandWhenSliderZero ==
    (clo_band_sel = "0.6-1.2 clo" /\ ChosenItems = <<>>) =>
        /\ clo_cont # 0 => clo_value = clo_cont
        /\ clo_cont = 0 => clo_value = 90
        /\ clo_value = 90 <=> clo_cont \in {0, 90}

\* C5 witness: the band decides, the slider being at 0.0
C5_Witness ==
    /\ clo_band_sel = "0.6-1.2 clo"
    /\ ChosenItems = <<>>
    /\ clo_cont = 0
    /\ clo_value = 90

(***************************************************************************)
(* SpecWho: the WHO-5 section of the form.  Moving one of the five         *)
(* sliders reruns the script and with it who5_matrix.                      *)
(***************************************************************************)
InitWho ==
    /\ CloFnIdle
    /\ FormIdle
    /\ WhoIdle
    /\ SubmitIdle
    /\ PagesIdle

MoveWhoSlider(key, val) ==
    /\ answers[key] # val
    /\ LET out == who5_matrix([answers EXCEPT ![key] = val])
       IN  /\ answers' = out.answers
           /\ raw_sum' = out.raw_sum
           /\ scaled' = out.scaled
           /\ tip' = out.tip
    /\ UNCHANGED <<cloFnVars, formVars, submitVars, pageVars>>

NextWho == \E key \in Range(WHO_KEYS), val \in WHO_SCORES : MoveWhoSlider(key, val)

SpecWho == InitWho /\ [][NextWho]_vars

(***************************************************************************)
(* Claims on the WHO-5 scorer                                              *)
(***************************************************************************)
\* C2: for every five item scores in 0..5, raw_sum is their arithmetic sum
\* (in 0..25) and scaled is raw_sum * 4, always in 0..100.
C2_Who5SumAndScale ==
    /\ \A k \in Range(WHO_KEYS) : answers[k] \in 0..5
    /\ raw_sum = answers["who1"] + answers["who2"] + answers["who3"]
                 + answers["who4"] + answers["who5"]
    /\ raw_sum \in 0..25
    /\ scaled = raw_sum * 4
    /\ scaled \in 0..100

\* C2 witness: the top of both ranges, reached by moving all five sliders
C2_Witness ==
    /\ \A k \in Range(WHO_KEYS) : answers[k] = 5
    /\ raw_sum = 25
    /\ scaled = 100

Says(sentence) == \E i \in 1..Len(tip) : tip[i] = sentence

\* C3: the tip says "acceptable well-being" exactly when scaled >= 50,
\* "reduced well-being" exactly when scaled < 50, and holds the screening
\* cut-off note exactly when scaled < 28; all fives give raw 25, scaled 100
\* and the acceptable tip, all zeros give raw 0, scaled 0 and the note.
C3_Who5Tip ==
    /\ Says(TIP_ACCEPTABLE) <=> scaled >= 50
    /\ Says(TIP_REDUCED) <=> scaled < 50
    /\ Says(TIP_CUTOFF) <=> scaled < 28
    /\ (\A k \in Range(WHO_KEYS) : answers[k] = 5) =>
           (raw_sum = 25 /\ scaled = 100 /\ tip = <<TIP_ACCEPTABLE>>)
    /\ (\A k \in Range(WHO_KEYS) : answers[k] = 0) =>
           (raw_sum = 0 /\ scaled = 0 /\ Says(TIP_CUTOFF))

\* C3 witness: all zeros, with the reduced tip and the cut-off note
C3_Witness ==
    /\ \A k \in Range(WHO_KEYS) : answers[k] = 0
    /\ tip = <<TIP_REDUCED, TIP_CUTOFF>>

(***************************************************************************)
(* SpecSubmit: sessions recording a voice note and submitting.  A click    *)
(* runs the page's script; its backend calls are separate steps, so the    *)
(* runs of two sessions interleave at the calls.  Each session stays on    *)
(* the page it opened.                                                     *)
(***************************************************************************)
InitSubmit ==
    /\ CloFnIdle
    /\ FormIdle
    /\ WhoIdle
    /\ sensor_readings = {}
    /\ cache = NoCache
    /\ view = NoView
    /\ now = 0
    /\ ts_aware = FALSE
    /\ installed \in {OPTIONAL_DEPS, OPTIONAL_DEPS \ {"audio_recorder_streamlit"}}
    /\ bucket = {}
    /\ feedback = {}
    /\ next_uuid = 1
    /\ HAS_AUDIOREC = has_audiorec(installed)
    /\ page \in [Sessions -> {"app", "recorder"}]
    /\ audio_bytes = [s \in Sessions |-> "None"]
    /\ audio_mime = [s \in Sessions |-> "audio/wav"]
    /\ pc = [s \in Sessions |-> "idle"]
    /\ fname = [s \in Sessions |-> None]
    /\ payload = [s \in Sessions |-> NoPayload]
    /\ calls = [s \in Sessions |-> <<>>]
    /\ messages = [s \in Sessions |-> <<>>]
    /\ clicks = 0

\* a script run in which no button was clicked shows no result of a click
FreshRun(s) ==
    /\ fname' = [fname EXCEPT ![s] = None]
    /\ payload' = [payload EXCEPT ![s] = NoPayload]
    /\ calls' = [calls EXCEPT ![s] = <<>>]
    /\ messages' = [messages EXCEPT ![s] = <<>>]

\* app.py 485-498: the recorder component or the uploader changes value
SetVoiceNote(s, raw, upload) ==
    /\ page[s] = "app"
    /\ pc[s] = "idle"
    /\ LET v == voice_note(HAS_AUDIOREC, raw, upload)
       IN  /\ <<v.audio_bytes, v.audio_mime>> # <<audio_bytes[s], audio_mime[s]>>
           /\ audio_bytes' = [audio_bytes EXCEPT ![s] = v.audio_bytes]
           /\ audio_mime' = [audio_mime EXCEPT ![s] = v.audio_mime]
    /\ FreshRun(s)
    /\ UNCHANGED <<backendVars, HAS_AUDIOREC, page, pc, clicks>>
    /\ UNCHANGED <<cloFnVars, formVars, whoVars, pageVars>>

\* app.py 507-550: "Submit Feedback" is clicked; the payload is built with
\* a fresh id and the run goes on to the upload or straight to the insert
ClickSubmit(s) ==
    /\ page[s] = "app"
    /\ pc[s] = "idle"
    /\ clicks < MaxClicks
    /\ clicks' = clicks + 1
    /\ next_uuid' = next_uuid + 1
    /\ payload' = [payload EXCEPT ![s] =
                       build_payload(next_uuid, widgets, clo_value,
                                     top_sel \o leg_sel \o outer_sel \o feet_sel,
                                     clo_detail, clo_band_sel, raw_sum, scaled)]
    /\ fname' = [fname EXCEPT ![s] = None]
    /\ calls' = [calls EXCEPT ![s] = <<>>]
    /\ messages' = [messages EXCEPT ![s] = <<>>]
    /\ pc' = [pc EXCEPT ![s] = IF truthy(audio_bytes[s]) THEN "upload" ELSE "insert"]
    /\ UNCHANGED <<bucket, feedback, HAS_AUDIOREC, page, audio_bytes, audio_mime>>
    /\ UNCHANGED <<cloFnVars, formVars, whoVars, pageVars>>

\* app.py 551-566: the storage upload returns (ok) or raises; either way
\* the audio fields are merged into the payload and the run goes on
UploadAudio(s, ok) ==
    /\ pc[s] = "upload"
    /\ LET path == voice_fname(next_uuid)
           m    == merged_audio(ok, path, audio_mime[s])
       IN  /\ next_uuid' = next_uuid + 1
           /\ fname' = [fname EXCEPT ![s] = path]
           /\ bucket' = IF ok THEN bucket \cup {path} ELSE bucket
           /\ calls' = [calls EXCEPT ![s] = Append(@, Call("upload", path, payload[s].id, ok))]
           /\ messages' = [messages EXCEPT ![s] =
                              IF ok THEN @ ELSE Append(@, "Audio upload failed")]
           /\ payload' = [payload EXCEPT ![s] =
                              [@ EXCEPT !.audio_path = m.audio_path,
                                        !.audio_mime = m.audio_mime]]
    /\ pc' = [pc EXCEPT ![s] = "insert"]
    /\ UNCHANGED <<feedback, HAS_AUDIOREC, page, audio_bytes, audio_mime, clicks>>
    /\ UNCHANGED <<cloFnVars, formVars, whoVars, pageVars>>

\* app.py 568-573: the insert returns (ok), followed by st.success and
\* st.rerun, or raises, followed by st.error
InsertRow(s, ok) ==
    /\ pc[s] = "insert"
    /\ feedback' = IF ok THEN insert_row(feedback, payload[s]) ELSE feedback
    /\ bucket' = IF ok THEN bucket
                 ELSE bucket_after_failed_insert(bucket, payload[s].audio_path)
    /\ calls' = [calls EXCEPT ![s] =
                    Append(@, Call("insert", payload[s].audio_path, payload[s].id, ok))]
    /\ messages' = [messages EXCEPT ![s] =
                       IF ok THEN @ \o <<"Thanks! Your feedback was submitted.", "st.rerun">>
                       ELSE Append(@, "Failed to submit")]
    /\ pc' = [pc EXCEPT ![s] = IF ok THEN "idle" ELSE after_failed_insert(pc[s])]
    /\ UNCHANGED <<next_uuid, HAS_AUDIOREC, page, audio_bytes, audio_mime, fname,
                   payload, clicks>>
    /\ UNCHANGED <<cloFnVars, formVars, whoVars, pageVars>>

\* pages/03_Voice_Recorder.py 27-29: audiorecorder returns a recording
\* (len(audio) > 0) or an empty segment
RecorderRecord(s, has_audio) ==
    /\ page[s] = "recorder"
    /\ pc[s] = "idle"
    /\ audio_bytes[s] # (IF has_audio THEN "bytes" ELSE "None")
    /\ audio_bytes' = [audio_bytes EXCEPT ![s] = IF has_audio THEN "bytes" ELSE "None"]
    /\ FreshRun(s)
    /\ UNCHANGED <<backendVars, HAS_AUDIOREC, page, audio_mime, pc, clicks>>
    /\ UNCHANGED <<cloFnVars, formVars, whoVars, pageVars>>

\* the step that follows step cur of the recorder's save, "idle" after the last
RecorderNext(cur) ==
    LET i == CHOOSE j \in 1..Len(recorder_steps) : recorder_steps[j] = cur
    IN  IF i < Len(recorder_steps) THEN recorder_steps[i + 1] ELSE "idle"

\* pages/03_Voice_Recorder.py 53-56: the button is shown only with a
\* recording; the run that sees the click has built its own fname
RecorderClickSave(s) ==
    /\ page[s] = "recorder"
    /\ pc[s] = "idle"
    /\ audio_bytes[s] = "bytes"
    /\ clicks < MaxClicks
    /\ clicks' = clicks + 1
    /\ fname' = [fname EXCEPT ![s] = voice_fname(next_uuid)]
    /\ next_uuid' = next_uuid + 1
    /\ payload' = [payload EXCEPT ![s] = NoPayload]
    /\ calls' = [calls EXCEPT ![s] = <<>>]
    /\ messages' = [messages EXCEPT ![s] = <<>>]
    /\ pc' = [pc EXCEPT ![s] = recorder_steps[1]]
    /\ UNCHANGED <<bucket, feedback, HAS_AUDIOREC, page, audio_bytes, audio_mime>>
    /\ UNCHANGED <<cloFnVars, formVars, whoVars, pageVars>>

\* pages/03_Voice_Recorder.py 59-64, 78-79: the upload returns or raises;
\* raising leaves the try block, so the insert is skipped
RecorderUpload(s, ok) ==
    /\ pc[s] = "rec_upload"
    /\ bucket' = IF ok THEN bucket \cup {fname[s]} ELSE bucket
    /\ calls' = [calls EXCEPT ![s] = Append(@, Call("upload", fname[s], payload[s].id, ok))]
    /\ pc' = [pc EXCEPT ![s] = IF ok THEN RecorderNext("rec_upload") ELSE "idle"]
    /\ messages' = [messages EXCEPT ![s] =
                       IF ~ok THEN Append(@, "Save failed")
                       ELSE IF pc'[s] = "idle" THEN Append(@, "Saved!") ELSE @]
    /\ UNCHANGED <<feedback, next_uuid, HAS_AUDIOREC, page, audio_bytes, audio_mime,
                   fname, payload, clicks>>
    /\ UNCHANGED <<cloFnVars, formVars, whoVars, pageVars>>

\* pages/03_Voice_Recorder.py 66-79: the row names fname and audio/wav
RecorderInsert(s, ok) ==
    /\ pc[s] = "rec_insert"
    /\ LET row == [id |-> next_uuid, audio_path |-> fname[s], audio_mime |-> "audio/wav"]
       IN  /\ next_uuid' = next_uuid + 1
           /\ payload' = [payload EXCEPT ![s] = row]
           /\ feedback' = IF ok THEN insert_row(feedback, row) ELSE feedback
           /\ bucket' = IF ok THEN bucket
                        ELSE bucket_after_failed_insert(bucket, fname[s])
           /\ calls' = [calls EXCEPT ![s] = Append(@, Call("insert", fname[s], row.id, ok))]
    /\ pc' = [pc EXCEPT ![s] = IF ok THEN RecorderNext("rec_insert") ELSE "idle"]
    /\ messages' = [messages EXCEPT ![s] =
                       IF ~ok THEN Append(@, "Save failed")
                       ELSE IF pc'[s] = "idle" THEN Append(@, "Saved!") ELSE @]
    /\ UNCHANGED <<HAS_AUDIOREC, page, audio_bytes, audio_mime, fname, clicks>>
    /\ UNCHANGED <<cloFnVars, formVars, whoVars, pageVars>>

NextSubmit ==
    \/ \E s \in Sessions, w \in WIDGET_VALUES : SetVoiceNote(s, w.raw, w.upload)
    \/ \E s \in Sessions : ClickSubmit(s)
    \/ \E s \in Sessions, ok \in BOOLEAN : UploadAudio(s, ok)
    \/ \E s \in Sessions, ok \in BOOLEAN : InsertRow(s, ok)
    \/ \E s \in Sessions, has_audio \in BOOLEAN : RecorderRecord(s, has_audio)
    \/ \E s \in Sessions : RecorderClickSave(s)
    \/ \E s \in Sessions, ok \in BOOLEAN : RecorderUpload(s, ok)
    \/ \E s \in Sessions, ok \in BOOLEAN : RecorderInsert(s, ok)

SpecSubmit == InitSubmit /\ [][NextSubmit]_vars

(***************************************************************************)
(* Claims on the submission writer                                         *)
(***************************************************************************)
\* the calls of kind op among the backend calls of s's current click
CallsOf(s, op) == {i \in 1..Len(calls[s]) : calls[s][i].op = op}
Shows(s, text) == \E i \in 1..Len(messages[s]) : messages[s][i] = text
\* the click of s on its page has run to its end
ClickDone(s) == pc[s] = "idle" /\ calls[s] # <<>>

\* C6: when "Submit Feedback" is clicked with audio_bytes None or empty,
\* no storage upload is attempted and the record handed to the insert, and
\* the row inserted, have audio_path null and audio_mime null.
C6_NoAudioNoUpload ==
    \A s \in Sessions :
        (page[s] = "app" /\ audio_bytes[s] \in {"None", "empty"}) =>
            /\ pc[s] # "upload"
            /\ CallsOf(s, "upload") = {}
            /\ \A i \in CallsOf(s, "insert") :
                   /\ calls[s][i].path = None
                   /\ payload[s].audio_path = None
                   /\ payload[s].audio_mime = NULL_MIME
                   /\ calls[s][i].ok =>
                          \E row \in feedback :
                              /\ row.id = calls[s][i].id
                              /\ row.audio_path = None
                              /\ row.audio_mime = NULL_MIME

\* C6 witness: an empty file was attached and the submission was inserted
\* without any object in the bucket
C6_Witness ==
    \E s \in Sessions :
        /\ page[s] = "app"
        /\ audio_bytes[s] = "empty"
        /\ Len(calls[s]) = 1
        /\ calls[s][1].op = "insert"
        /\ calls[s][1].ok
        /\ payload[s] \in feedback
        /\ bucket = {}

\* C7: within one submission that carries audio (either page), the upload
\* is issued before the insert, the insert is never issued first, and when
\* the upload returned, the record inserted names the object just uploaded.
C7_UploadBeforeInsert ==
    \A s \in Sessions :
        truthy(audio_bytes[s]) =>
            \A i \in CallsOf(s, "insert") :
                /\ i = 2
                /\ calls[s][1].op = "upload"
                /\ calls[s][1].id = calls[s][2].id \/ page[s] = "recorder"
                /\ calls[s][1].ok =>
                       /\ calls[s][2].path = calls[s][1].path
                       /\ calls[s][1].path \in bucket
                       /\ calls[s][2].ok =>
                              \E row \in feedback :
                                  /\ row.id = calls[s][2].id
                                  /\ row.audio_path = calls[s][1].path

\* C7 witness: on the main form, upload then insert, both returned
C7_Witness ==
    \E s \in Sessions :
        /\ page[s] = "app"
        /\ Len(calls[s]) = 2
        /\ calls[s][1].op = "upload" /\ calls[s][1].ok
        /\ calls[s][2].op = "insert" /\ calls[s][2].ok
        /\ calls[s][2].path = calls[s][1].path

C8_State ==
    \A s \in Sessions :
        page[s] = "app" =>
            /\ Cardinality(CallsOf(s, "upload")) <= 1
            /\ Cardinality(CallsOf(s, "insert")) <= 1
            /\ pc[s] \in {"idle", "upload", "insert"}
            /\ ClickDone(s) =>
                   /\ Cardinality(CallsOf(s, "insert")) = 1
                   /\ \A i \in CallsOf(s, "upload") :
                          ~calls[s][i].ok => Shows(s, "Audio upload failed")
                   /\ \A i \in CallsOf(s, "insert") :
                          /\ ~calls[s][i].ok =>
                                 (Shows(s, "Failed to submit") /\ payload[s] \notin feedback)
                          /\ calls[s][i].ok =>
                                 {row \in feedback : row.id = payload[s].id} = {payload[s]}

C8_Step ==
    /\ Cardinality(feedback') <= Cardinality(feedback) + 1
    /\ \A s \in Sessions :
           (pc[s] = "insert" /\ pc'[s] = "idle" /\ calls'[s][Len(calls'[s])].ok) =>
               (feedback' = feedback \cup {payload[s]} /\ payload[s] \notin feedback)

OrphanedBy(s) ==
    {calls[s][i].path : i \in {j \in CallsOf(s, "upload") :
        /\ calls[s][j].ok
        /\ \E k \in CallsOf(s, "insert") : k > j /\ ~calls[s][k].ok}}

C9_State ==
    \A s \in Sessions : \A p \in OrphanedBy(s) :
        /\ p \in bucket
        /\ \A row \in feedback : row.audio_path # p

C9_Step == bucket \subseteq bucket' /\ feedback \subseteq feedback'

\* C9: when the upload of a submission returns and its insert raises, the
\* object stays in the bucket and no feedback row names its path; no step
\* of the system removes an object or a row (no compensating delete, no
\* rollback).
C9_OrphanStays == []C9_State /\ [][C9_Step]_vars

\* C9 witness: an orphaned object of a click that has ended
C9_Witness ==
    \E s \in Sessions :
        /\ ClickDone(s)
        /\ OrphanedBy(s) # {}
        /\ OrphanedBy(s) \subseteq bucket
        /\ feedback = {}

(***************************************************************************)
(* SpecPages: script runs of the reading pages over a feedback table and   *)
(* a sensor table that other parties have filled.                          *)
(***************************************************************************)
SAMPLE_ROWS ==
    {[id |-> 1, audio_path |-> 2, audio_mime |-> "audio/wav"],
     [id |-> 3, audio_path |-> 4, audio_mime |-> "audio/wav"],
     [id |-> 5, audio_path |-> None, audio_mime |-> NULL_MIME]}

InitPages ==
    /\ CloFnIdle
    /\ FormIdle
    /\ WhoIdle
    /\ feedback \in SUBSET SAMPLE_ROWS
    /\ bucket = {r.audio_path : r \in with_audio(feedback)}
    /\ next_uuid = 6
    /\ installed \in {OPTIONAL_DEPS} \cup {OPTIONAL_DEPS \ {d} : d \in OPTIONAL_DEPS}
    /\ HAS_AUDIOREC = has_audiorec(installed)
    /\ page = [s \in Sessions |-> "app"]
    /\ audio_bytes = [s \in Sessions |-> "None"]
    /\ audio_mime = [s \in Sessions |-> "audio/wav"]
    /\ pc = [s \in Sessions |-> "idle"]
    /\ fname = [s \in Sessions |-> None]
    /\ payload = [s \in Sessions |-> NoPayload]
    /\ calls = [s \in Sessions |-> <<>>]
    /\ messages = [s \in Sessions |-> <<>>]
    /\ clicks = 0
    /\ sensor_readings = {}
    /\ cache = NoCache
    /\ view = NoView
    /\ now = 0
    /\ ts_aware = FALSE

RUN_INPUTS == [p1 : BOOLEAN, p2 : BOOLEAN, sel : BOOLEAN]

\* app.py 25-31: the probe (DNS lookup and one-row select in one try),
\* then the form
RunApp(probe_ok) ==
    /\ view' = [NoView EXCEPT !.page = "app.py", !.outcome = "rendered",
                              !.shown = probe_shown(probe_ok),
                              !.voice = voice_widget(HAS_AUDIOREC),
                              !.after_probe = TRUE]
    /\ UNCHANGED <<sensor_readings, cache, now, deployVars>>
    /\ UNCHANGED <<cloFnVars, formVars, whoVars, submitVars>>

\* pages/02_Sensors.py 11: create_client(SUPABASE_URL, SUPABASE_KEY) reads
\* names that are bound only at lines 26-27, so every run of the script
\* ends there with a NameError; no later line of the file runs
RunPagesSensors ==
    /\ view' = [NoView EXCEPT !.page = "pages/02_Sensors.py",
                              !.outcome = "aborted", !.uncaught = "NameError"]
    /\ UNCHANGED <<sensor_readings, cache, now, deployVars>>
    /\ UNCHANGED <<cloFnVars, formVars, whoVars, submitVars>>

\* pages/03_Voice_Playback.py: probe (28-34), query (46-58), empty state
\* (60-62), one expander per row (65-95)
RunPlayback03(probe_ok, q_ok, urls) ==
    /\ LET v    == [NoView EXCEPT !.page = "pages/03_Voice_Playback.py",
                                  !.shown = probe_shown(probe_ok),
                                  !.after_probe = TRUE]
           rows == with_audio(feedback)
       IN  view' = IF ~q_ok
                   THEN [v EXCEPT !.outcome = "aborted", !.uncaught = "select"]
                   ELSE IF rows = {}
                   THEN [v EXCEPT !.outcome = "stopped",
                                  !.shown = @ \cup {"No recordings yet."}]
                   ELSE [v EXCEPT !.outcome = "rendered", !.df = rows,
                                  !.urls = urls,
                                  !.audio = [id \in {r.id : r \in rows} |->
                                                render_03(urls[id])]]
    /\ UNCHANGED <<sensor_readings, cache, now, deployVars>>
    /\ UNCHANGED <<cloFnVars, formVars, whoVars, submitVars>>

\* pages/04_Voice_Playback.py: probe with st.stop() (29-34), query (60-72),
\* empty state (74-76), one expander per row (78-91)
RunPlayback04(probe_ok, q_ok, urls) ==
    /\ LET v    == [NoView EXCEPT !.page = "pages/04_Voice_Playback.py",
                                  !.shown = probe_shown(probe_ok),
                                  !.after_probe = probe_ok]
           rows == with_audio(feedback)
       IN  view' = IF ~probe_ok
                   THEN [v EXCEPT !.outcome = "stopped"]
                   ELSE IF ~q_ok
                   THEN [v EXCEPT !.outcome = "aborted", !.uncaught = "select"]
                   ELSE IF rows = {}
                   THEN [v EXCEPT !.outcome = "stopped",
                                  !.shown = @ \cup {"No recordings yet."}]
                   ELSE [v EXCEPT !.outcome = "rendered", !.df = rows,
                                  !.urls = urls,
                                  !.audio = [id \in {r.id : r \in rows} |->
                                                render_04(urls[id])]]
    /\ UNCHANGED <<sensor_readings, cache, now, deployVars>>
    /\ UNCHANGED <<cloFnVars, formVars, whoVars, submitVars>>

\* pages/03_Voice_Recorder.py is opened: the imports of lines 2-7 run
\* first; a module that is not installed ends the run there
RunRecorder ==
    /\ LET v   == [NoView EXCEPT !.page = "pages/03_Voice_Recorder.py"]
           err == recorder_import_error(installed)
       IN  view' = IF err # "none"
                   THEN [v EXCEPT !.outcome = "aborted",
                                  !.uncaught = "ModuleNotFoundError",
                                  !.shown = {err}]
                   ELSE [v EXCEPT !.outcome = "rendered", !.voice = "recorder"]
    /\ UNCHANGED <<sensor_readings, cache, now, deployVars>>
    /\ UNCHANGED <<cloFnVars, formVars, whoVars, submitVars>>

AudioIds == {r.id : r \in with_audio(feedback)}

NextPages ==
    \/ \E probe_ok \in BOOLEAN : RunApp(probe_ok)
    \/ RunPagesSensors
    \/ RunRecorder
    \/ \E probe_ok, q_ok \in BOOLEAN, urls \in [AudioIds -> URL_OUTCOMES] :
           RunPlayback03(probe_ok, q_ok, urls)
    \/ \E probe_ok, q_ok \in BOOLEAN, urls \in [AudioIds -> URL_OUTCOMES] :
           RunPlayback04(probe_ok, q_ok, urls)

SpecPages == InitPages /\ [][NextPages]_vars

(***************************************************************************)
(* SpecDash: the two dashboards over tables that grow while the clock      *)
(* runs.  Both read through st.cache_data(ttl=60).  A row's time is ts     *)
(* (the feedback table's "timestamp" column, the sensor table's "ts").     *)
(* pages/01_Dashboard.py is a page of app.py's Streamlit app; 02_Sensors.py *)
(* lies beside app.py, not under pages/, and is served as an app of its    *)
(* own, with a cache of its own.  A behaviour follows one of the two.      *)
(***************************************************************************)
DASH_ROWS ==
    {[id |-> 1, ts |-> 0 - DAY, room |-> "R1", clothing |-> "light"],
     [id |-> 2, ts |-> 0 - 3 * DAY, room |-> "R2", clothing |-> "heavy"],
     [id |-> 3, ts |-> 0 - 6 * DAY, room |-> "R1", clothing |-> "light"]}

SENSOR_ROWS ==
    {[id |-> 1, ts |-> 0 - 100, device_id |-> "esp32-classroom-02", room |-> "Lab-102"],
     [id |-> 2, ts |-> 0 - 4 * DAY, device_id |-> "esp32-classroom-01", room |-> "Lab-101"]}

\* values of the filter widgets: st.slider("Days back", 1, 30, 7) and the
\* two select boxes of each dashboard
DASH_WIDGETS == [days_back : {1, 7}, room : {ALL, "R1"}, clothing : {ALL, "heavy"}]
SENSOR_WIDGETS ==
    [days_back : {3, 30}, device : {ALL, "esp32-classroom-01"}, room : {ALL, "Lab-102"}]

\* the widget values of a first visit
SENSOR_DEFAULTS == [days_back |-> 3, device |-> ALL, room |-> ALL]

\* the steps of the clock
TICK_SECONDS == {30}

\* the browser is on the dashboard's app or on the sensors' app
Viewing(p) == \A s \in Sessions : page[s] = p

InitDash ==
    /\ CloFnIdle
    /\ FormIdle
    /\ WhoIdle
    /\ bucket = {}
    /\ next_uuid = 4
    /\ HAS_AUDIOREC = TRUE
    /\ page \in {[s \in Sessions |-> p] : p \in {"dashboard", "sensors"}}
    /\ feedback \in IF Viewing("dashboard") THEN {{}, DASH_ROWS} ELSE {{}}
    /\ audio_bytes = [s \in Sessions |-> "None"]
    /\ audio_mime = [s \in Sessions |-> "audio/wav"]
    /\ pc = [s \in Sessions |-> "idle"]
    /\ fname = [s \in Sessions |-> None]
    /\ payload = [s \in Sessions |-> NoPayload]
    /\ calls = [s \in Sessions |-> <<>>]
    /\ messages = [s \in Sessions |-> <<>>]
    /\ clicks = 0
    /\ sensor_readings \in IF Viewing("sensors") THEN {{}, SENSOR_ROWS} ELSE {{}}
    /\ cache = NoCache
    /\ view = NoView
    /\ now = 0
    /\ installed = OPTIONAL_DEPS
    /\ ts_aware \in IF Viewing("sensors") THEN BOOLEAN ELSE {FALSE}

Tick(d) ==
    /\ now + d <= 30 * MaxTicks
    /\ now' = now + d
    /\ UNCHANGED <<sensor_readings, cache, view, deployVars>>
    /\ UNCHANGED <<cloFnVars, formVars, whoVars, submitVars>>

\* app.py 507-569 seen from the dashboard: a submission adds a row whose
\* timestamp is the time of the click
FeedbackArrives(room) ==
    /\ next_uuid < 4 + MaxArrivals
    /\ \A r \in feedback : r.ts # now
    /\ feedback' = insert_row(feedback, [id |-> next_uuid, ts |-> now, room |-> room,
                                         clothing |-> "light"])
    /\ next_uuid' = next_uuid + 1
    /\ UNCHANGED <<bucket, sessionVars, pageVars>>
    /\ UNCHANGED <<cloFnVars, formVars, whoVars>>

\* pages/01_Dashboard.py is opened or rerun by a widget
RunDashboard(in, w) ==
    /\ LET r == DashboardRun(cache, feedback, now, in, w)
       IN  view' = r.view /\ cache' = r.cache
    /\ UNCHANGED <<sensor_readings, now, deployVars>>
    /\ UNCHANGED <<cloFnVars, formVars, whoVars, submitVars>>

\* pages/01_Dashboard.py 130-132: the click reruns the script (in1); when
\* that run reaches the button, st.cache_data.clear() empties the caches
\* and st.rerun() runs the script once more (in2)
ClickRefresh(in1, in2, w) ==
    /\ view.page = "pages/01_Dashboard.py"
    /\ view.outcome = "rendered"
    /\ LET r1 == DashboardRun(cache, feedback, now, in1, w)
           r2 == DashboardRun(NoCache, feedback, now, in2, w)
       IN  IF r1.view.outcome = "rendered"
           THEN view' = [r2.view EXCEPT !.cleared = TRUE] /\ cache' = r2.cache
           ELSE view' = r1.view /\ cache' = r1.cache
    /\ UNCHANGED <<sensor_readings, now, deployVars>>
    /\ UNCHANGED <<cloFnVars, formVars, whoVars, submitVars>>

\* 02_Sensors.py is opened or rerun by a widget
RunSensors(sel, w) ==
    /\ LET r == SensorsRun(cache, sensor_readings, now, sel, ts_aware, w)
       IN  view' = r.view /\ cache' = r.cache
    /\ UNCHANGED <<sensor_readings, now, deployVars>>
    /\ UNCHANGED <<cloFnVars, formVars, whoVars, submitVars>>

\* 02_Sensors.py 88-97: "Insert test row" is clicked; the script reruns
\* and, when the run reaches the button, inserts the row, whose ts is the
\* column's default, the time of the insert
ClickInsertTest(sel, ins, w) ==
    /\ view.page = "02_Sensors.py"
    /\ view.outcome = "rendered"
    /\ Cardinality(sensor_readings) < Cardinality(SENSOR_ROWS) + MaxSensorRows
    /\ \A r \in sensor_readings : r.ts # now
    /\ LET r == SensorsRun(cache, sensor_readings, now, sel, ts_aware, w)
       IN  IF r.view.outcome # "rendered"
           THEN view' = r.view /\ cache' = r.cache /\ UNCHANGED sensor_readings
           ELSE IF ins
           THEN /\ sensor_readings' =
                       insert_row(sensor_readings,
                                  [id |-> Cardinality(sensor_readings) + 1, ts |-> now,
                                   device_id |-> "esp32-classroom-01",
                                   room |-> "Lab-101"])
                /\ view' = [r.view EXCEPT !.shown = @ \cup {"Row inserted"},
                                          !.cleared = TRUE]
                /\ cache' = cache_after_test_insert(r.cache)
           ELSE /\ view' = [r.view EXCEPT !.shown = @ \cup {"Insert failed"}]
                /\ cache' = r.cache
                /\ UNCHANGED sensor_readings
    /\ UNCHANGED <<now, deployVars>>
    /\ UNCHANGED <<cloFnVars, formVars, whoVars, submitVars>>

NextDash ==
    \/ \E d \in TICK_SECONDS : Tick(d)
    \/ Viewing("dashboard") /\ FeedbackArrives("R2")
    \/ Viewing("dashboard") /\ \E in \in RUN_INPUTS, w \in DASH_WIDGETS :
           RunDashboard(in, w)
    \/ Viewing("dashboard") /\ \E in \in RUN_INPUTS, sel1 \in BOOLEAN, w \in DASH_WIDGETS :
           \* the probes of the first run show only when it ends the click
           ClickRefresh([in EXCEPT !.sel = sel1], in, w)
    \/ Viewing("sensors") /\ \E sel \in BOOLEAN, w \in SENSOR_WIDGETS :
           RunSensors(sel, w)
    \/ Viewing("sensors") /\ \E sel, ins \in BOOLEAN, w \in SENSOR_WIDGETS :
           ClickInsertTest(sel, ins, w)

SpecDash == InitDash /\ [][NextDash]_vars

(***************************************************************************)
(* SpecWrites: the pages that write, side by side: a session on the main   *)
(* form, a session on the voice recorder page, and the sensors page with   *)
(* its insert tester.                                                      *)
(***************************************************************************)
InitWrites ==
    /\ CloFnIdle
    /\ FormIdle
    /\ WhoIdle
    /\ bucket = {}
    /\ feedback = {}
    /\ next_uuid = 1
    /\ HAS_AUDIOREC = TRUE
    /\ page = ("s1" :> "app") @@ ("s2" :> "recorder")
    /\ audio_bytes = [s \in Sessions |-> "None"]
    /\ audio_mime = [s \in Sessions |-> "audio/wav"]
    /\ pc = [s \in Sessions |-> "idle"]
    /\ fname = [s \in Sessions |-> None]
    /\ payload = [s \in Sessions |-> NoPayload]
    /\ calls = [s \in Sessions |-> <<>>]
    /\ messages = [s \in Sessions |-> <<>>]
    /\ clicks = 0
    /\ sensor_readings = SENSOR_ROWS
    /\ cache = NoCache
    /\ view = NoView
    /\ now = 0
    /\ installed = OPTIONAL_DEPS
    /\ ts_aware = FALSE

NextWrites ==
    \/ NextSubmit
    \/ \E sel \in BOOLEAN : RunSensors(sel, SENSOR_DEFAULTS)
    \/ \E sel, ins \in BOOLEAN : ClickInsertTest(sel, ins, SENSOR_DEFAULTS)
    \/ RunPagesSensors

SpecWrites == InitWrites /\ [][NextWrites]_vars

(***************************************************************************)
(* Claims on what the system writes                                        *)
(***************************************************************************)
C11_Step ==
    /\ feedback \subseteq feedback'
    /\ sensor_readings \subseteq sensor_readings'
    /\ Cardinality(feedback') <= Cardinality(feedback) + 1
    /\ Cardinality(sensor_readings') <= Cardinality(sensor_readings) + 1

\* C11: every step of the writing pages leaves each row of the feedback
\* table and of the sensor table as it is: a step adds at most one row to
\* a table and neither changes a field of a row nor removes a row.
C11_InsertOnly == [][C11_Step]_vars

\* C11 witness: rows were inserted into both tables on top of earlier rows
C11_Witness ==
    /\ Cardinality(feedback) = 2
    /\ SENSOR_ROWS \subseteq sensor_readings
    /\ Cardinality(sensor_readings) = Cardinality(SENSOR_ROWS) + 1
    /\ \E r \in feedback : r.audio_path # None

(***************************************************************************)
(* Claims on error handling                                                *)
(***************************************************************************)
\* C10: every backend call of every page is wrapped so that its exception
\* becomes an inline error message; no failure of a backend call leaves
\* the script as an uncaught exception that aborts the page.
C10_EveryCallWrapped ==
    ~(view.outcome = "aborted" /\ view.uncaught \in BACKEND_CALLS)

\* the pages that use an optional package, and the packages each uses
USES_OPTIONAL ==
    ("app.py" :> {"audio_recorder_streamlit"}) @@
    ("pages/03_Voice_Recorder.py" :> {"audiorecorder", "speech_recognition"})

\* C12: a page that uses an optional package that is not installed still
\* loads: its script run is not ended by an exception, and the voice
\* feature is offered as a file upload or left out.
C12_MissingDependencyDegrades ==
    (/\ view.page \in DOMAIN USES_OPTIONAL
     /\ ~(USES_OPTIONAL[view.page] \subseteq installed)) =>
        /\ view.outcome # "aborted"
        /\ view.voice \in {"uploader", "none"}

\* C13: on every page, a run whose connectivity probe failed shows the
\* probe's message and goes on with the rest of the page.
C13_ProbeOnlyDiagnostic ==
    "Supabase probe failed" \in view.shown => view.after_probe

(***************************************************************************)
(* Claims on the dashboards                                                *)
(***************************************************************************)
DASH_PAGES == {"pages/01_Dashboard.py", "02_Sensors.py"}
TableOf(p) == IF p = "pages/01_Dashboard.py" THEN feedback ELSE sensor_readings

\* r passes the two select boxes of page p set to a and b
Matches(p, r, a, b) ==
    IF p = "pages/01_Dashboard.py"
    THEN (a # ALL => r.room = a) /\ (b # ALL => r.clothing = b)
    ELSE (a # ALL => r.device_id = a) /\ (b # ALL => r.room = b)

\* the run that left view went past the fetch
Fetched == view.page \in DASH_PAGES /\ ~(view.outcome = "aborted" /\ view.uncaught = "select")

C14_State ==
    Fetched =>
        LET cutoff == view.at - view.filter.days_back * DAY
            expected == {r \in view.df :
                            /\ r.ts >= cutoff
                            /\ Matches(view.page, r, view.filter.a, view.filter.b)}
        IN  /\ Cardinality(view.df) <= MaxFetched
            /\ view.df \subseteq TableOf(view.page)
            /\ \A q \in TableOf(view.page) \ view.df :
                   q.ts < view.fetched_at =>
                       /\ Cardinality(view.df) = MaxFetched
                       /\ \A r \in view.df : r.ts > q.ts
            /\ view.outcome \in {"rendered", "stopped"} => view.rows = expected
            /\ view.outcome = "aborted" => view.rows = {}

C14_Step ==
    (view' # view /\ view'.page \in DASH_PAGES /\ view'.called
        /\ ~(view'.outcome = "aborted" /\ view'.uncaught = "select")) =>
        /\ view'.df = top_rows(TableOf(view'.page), MaxFetched)
        /\ view'.fetched_at = now

EntryOf(c, p) == IF p = "pages/01_Dashboard.py" THEN c.feedback ELSE c.sensors

C15_State ==
    (Fetched /\ view.outcome \in {"rendered", "stopped"}) =>
        /\ view.fetched_at <= view.at
        /\ view.at - view.fetched_at < TTL

\* a step that is a script run of a dashboard: p is the page, c the entry
\* the run found; a run that cleared the cache and ran again is a rerun
C15_Step ==
    LET p == view'.page
        c == EntryOf(cache, p)
        rerun == p = "pages/01_Dashboard.py" /\ view'.cleared
    IN  (view' # view /\ p \in DASH_PAGES) =>
            /\ view'.at = now
            /\ (~rerun /\ fresh(c, now)) =>
                   /\ ~view'.called
                   /\ view'.df = c.rows
                   /\ view'.fetched_at = c.at
            /\ (~rerun /\ ~fresh(c, now)) => view'.called
            /\ rerun => view'.called
            /\ (~view'.cleared /\ fresh(c, now)) => cache' = cache
            /\ (view'.cleared /\ ~rerun) => cache' = NoCache
            /\ (view'.called /\ ~(view'.outcome = "aborted" /\ view'.uncaught = "select")) =>
                   /\ view'.df = top_rows(TableOf(p), MaxFetched)
                   /\ view'.fetched_at = now
                   /\ ~view'.cleared => EntryOf(cache', p) = Cached(view'.df, now)
            /\ view'.df \in {{}, c.rows, top_rows(TableOf(p), MaxFetched)}

\* C15: a page load less than 60 seconds after the fetch whose result is
\* stored reuses the stored rows and issues no row select; a page load
\* when 60 seconds have passed, or after the cache was cleared, issues the
\* select; the rows a run displays come from a select less than 60 seconds
\* before it; and what a run displays depends on the tables, the clock, the
\* widgets and the cache only, not on an earlier run.
C15_CacheTimeBoxed == []C15_State /\ [][C15_Step]_vars

\* C15 witness: a load 30 seconds after the fetch shows the stored rows
\* although a newer row has arrived in the table since
C15_Witness ==
    /\ view.page = "pages/01_Dashboard.py"
    /\ view.outcome = "rendered"
    /\ ~view.called
    /\ view.at - view.fetched_at = 30
    /\ \E q \in feedback \ view.df : q.ts > view.fetched_at


(***************************************************************************)
(* SpecRecord: one respondent (session s1) sets widgets of the form and    *)
(* submits once.  Every widget interaction reruns the script; the widgets  *)
(* keep their values.  At most MaxEdits widgets are off their defaults,    *)
(* and the values tried are the ends of each widget's range.               *)
(***************************************************************************)
MaxEdits == 2

SetThermal(v) ==
    /\ v # widgets.thermal_sensation
    /\ widgets' = [widgets EXCEPT !.thermal_sensation = v]

SetGlare(v) ==
    /\ v # widgets.glare_rating
    /\ widgets' = [widgets EXCEPT !.glare_rating = v]

SetKss(label) ==
    /\ label # widgets.kss_label
    /\ widgets' = [widgets EXCEPT !.kss_label = label]

SetActivity(a) ==
    /\ a # widgets.activity
    /\ widgets' = [widgets EXCEPT !.activity = a]

SetSymptom(i, v) ==
    /\ v # widgets.symptom[i]
    /\ widgets' = [widgets EXCEPT !.symptom[i] = v]

SetSat(q, v) ==
    /\ v # widgets.sat[q]
    /\ widgets' = [widgets EXCEPT !.sat[q] = v]

\* a rerun caused by one of the widgets above: section 5 and the WHO-5
\* block recompute the same values from their unchanged widgets
WidgetRerun ==
    /\ pc["s1"] = "idle"
    /\ UNCHANGED <<top_sel, leg_sel, outer_sel, feet_sel, clo_cont, clo_band_sel,
                   clo_itemized, clo_detail, clo_value>>
    /\ UNCHANGED <<cloFnVars, whoVars, submitVars, pageVars>>

\* the number of widgets that are off the value a first run gives them
OffDefault ==
    Cardinality({k \in {"thermal_sensation", "glare_rating", "kss_label", "activity"} :
                    widgets[k] # WIDGET_DEFAULTS[k]})
    + Cardinality({i \in SYMPTOM_IDX : widgets.symptom[i] # "No"})
    + Cardinality({q \in SAT_KEYS : widgets.sat[q] # 3})
    + Cardinality({i \in 1..Len(WHO_KEYS) : answers[WHO_KEYS[i]] # 3})
    + NumChosen
    + (IF clo_cont # 90 THEN 1 ELSE 0)
    + (IF clo_band_sel # CLO_BANDS[2][1] THEN 1 ELSE 0)

\* nothing has been submitted yet and no more than MaxEdits widgets are set
Editing ==
    /\ clicks = 0
    /\ OffDefault' <= MaxEdits

InitRecord ==
    /\ CloFnIdle
    /\ FormIdle
    /\ WhoIdle
    /\ SubmitIdle
    /\ PagesIdle

NextRecord ==
    \/ \E v \in {-3, 3} : SetThermal(v) /\ WidgetRerun /\ Editing
    \/ \E v \in {1, 5} : SetGlare(v) /\ WidgetRerun /\ Editing
    \/ \E i \in {1, 9} : SetKss(KSS_OPTS[i]) /\ WidgetRerun /\ Editing
    \/ \E i \in {1, 3, 4} : SetActivity(ACTIVITIES[i]) /\ WidgetRerun /\ Editing
    \/ \E i \in {1, 10}, v \in {"Yes", "No"} : SetSymptom(i, v) /\ WidgetRerun /\ Editing
    \/ \E q \in {"overall", "view"}, v \in {1, 5} : SetSat(q, v) /\ WidgetRerun /\ Editing
    \/ \E key \in {"who1", "who5"}, val \in {0, 5} : MoveWhoSlider(key, val) /\ Editing
    \/ \E item \in {ACCESSORY, "T-shirt / singlet"} : TickTop(item) /\ Editing
    \/ TickOuter("Coat (indoor short coat)") /\ Editing
    \/ \E item \in DOMAIN CLO_ITEMS : Untick(item) /\ Editing
    \/ \E v \in {0, 140} : MoveCloCont(v) /\ Editing
    \/ \E key \in {CLO_BANDS[1][1], CLO_BANDS[Len(CLO_BANDS)][1]} : SelectBand(key) /\ Editing
    \/ ClickSubmit("s1")
    \/ \E ok \in BOOLEAN : InsertRow("s1", ok)

SpecRecord == InitRecord /\ [][NextRecord]_vars


(***************************************************************************)
(* Claims on the submitted record                                          *)
(***************************************************************************)
\* the rows and payloads that the main form has built
FormRecords ==
    {r \in feedback : "thermal_sensation" \in DOMAIN r}
    \cup {payload[s] : s \in {x \in Sessions : page[x] = "app" /\ payload[x].id # None}}

\* the widget bounds of one record (met in tenths, clo in hundredths)
WithinWidgetBounds(r) ==
    /\ r.thermal_sensation \in -3..3
    /\ r.glare_rating \in 1..5
    /\ r.kss_score \in 1..9
    /\ \A q \in SAT_KEYS : r["sat_" \o q] \in 1..5
    /\ r.who5_raw_sum \in 0..25
    /\ r.who5_scaled_0_100 \in 0..100
    /\ r.clo_value >= 0
    /\ r.met_value \in {10, 12, 14, 17}
    /\ {"symptom01", "symptom02", "symptom03", "symptom04", "symptom05",
        "symptom06", "symptom07", "symptom08", "symptom09", "symptom10"}
           \subseteq DOMAIN r
    /\ \A k \in {"symptom01", "symptom02", "symptom03", "symptom04", "symptom05",
                 "symptom06", "symptom07", "symptom08", "symptom09", "symptom10"} :
           r[k] \in BOOLEAN

\* C16: every record the main form submits has thermal_sensation in -3..3,
\* glare_rating in 1..5, kss_score in 1..9, each sat_* in 1..5, who5_raw_sum
\* in 0..25, who5_scaled_0_100 in 0..100, clo_value >= 0, met_value in
\* {1.0, 1.2, 1.4, 1.7} and booleans in symptom01..symptom10
C16_RecordWithinWidgetBounds == \A r \in FormRecords : WithinWidgetBounds(r)

\* a row is stored whose thermal vote is -3 and whose KSS label is the first
C16_Witness ==
    \E r \in feedback :
        /\ "thermal_sensation" \in DOMAIN r
        /\ r.thermal_sensation = -3
        /\ r.kss_score = 1


(***************************************************************************)
(* Claims on concurrent submissions                                        *)
(***************************************************************************)
\* the session-local state of the submission of s
Submission(s) == <<pc[s], fname[s], payload[s], calls[s], messages[s]>>

\* the step that the click of s takes next
StepOf(s) ==
    \E ok \in BOOLEAN :
        \/ UploadAudio(s, ok) \/ InsertRow(s, ok)
        \/ RecorderUpload(s, ok) \/ RecorderInsert(s, ok)

\* the paths that the click of s has uploaded
UploadedBy(s) == {calls[s][i].path : i \in {j \in CallsOf(s, "upload") : calls[s][j].ok}}

C17_State ==
    /\ \A r1, r2 \in feedback : r1.id = r2.id => r1 = r2
    /\ \A r1, r2 \in feedback :
           (r1.audio_path # None /\ r1.audio_path = r2.audio_path) => r1 = r2
    /\ \A s, t \in Sessions :
           (s # t /\ pc[s] # "idle" /\ pc[t] # "idle") =>
               /\ payload[s].id = None \/ payload[s].id # payload[t].id
               /\ fname[s] = None \/ fname[s] # fname[t]
               /\ UploadedBy(s) \cap UploadedBy(t) = {}
    /\ \A s \in Sessions : pc[s] # "idle" => ENABLED StepOf(s)

C17_Step ==
    /\ feedback \subseteq feedback'
    /\ bucket \subseteq bucket'
    /\ \A s, t \in Sessions :
           (s # t /\ Submission(s)' # Submission(s)) => Submission(t)' = Submission(t)
    /\ \A r \in feedback' \ feedback :
           \E s \in Sessions :
               /\ pc[s] \in {"insert", "rec_insert"}
               /\ pc'[s] # pc[s]
               /\ r = payload'[s]
               /\ r.id \notin {x.id : x \in feedback}
               /\ r.audio_path = None \/ r.audio_path \in UploadedBy(s)
               /\ \A t \in Sessions \ {s} :
                      r.audio_path = None \/ r.audio_path \notin (UploadedBy(t) \cup {fname[t]})

\* C17: two submissions made at once from two sessions are independent under
\* every interleaving of their upload and insert steps: each inserts its own
\* row with its own id, a row's audio_path names the object uploaded by the
\* same submission, and no step of one changes, blocks or removes the
\* other's submission, row or object
C17_SubmissionsIndependent == []C17_State /\ [][C17_Step]_vars

\* s2 uploaded its object before s1 uploaded its own, s1's row is stored
\* first, and s2 is still about to insert
C17_Witness ==
    /\ pc["s2"] = "insert"
    /\ payload["s2"].audio_path # None
    /\ \E r \in feedback :
           /\ r.id < payload["s2"].id
           /\ r.audio_path # None
           /\ r.audio_path > payload["s2"].audio_path
           /\ {r.audio_path, payload["s2"].audio_path} \subseteq bucket


(***************************************************************************)
(* Claims on the voice note of a submission                                *)
(***************************************************************************)
\* the upload of the current click of s raised
UploadFailed(s) == \E i \in CallsOf(s, "upload") : ~calls[s][i].ok

Uploaded == UNION {UploadedBy(s) : s \in Sessions}

C19_State ==
    \A r \in feedback :
        /\ r.audio_path # None => r.audio_path \in bucket
        /\ r.audio_mime # NULL_MIME <=> r.audio_path # None

C19_Step ==
    \A r \in feedback' \ feedback :
        r.audio_path # None =>
            /\ r.audio_path \in bucket
            /\ r.audio_path \in Uploaded
            /\ \A s \in Sessions : \A i \in CallsOf(s, "upload") :
                   ~calls[s][i].ok => calls[s][i].path # r.audio_path

\* C19: for every feedback row written by the main form or the recorder
\* page, a non-null audio_path names an object whose upload returned before
\* the row was inserted, never the path of an upload that failed or was not
\* made, and audio_mime is non-null exactly when audio_path is non-null
C19_AudioPathNamesUploadedObject == []C19_State /\ [][C19_Step]_vars

\* the table holds a recorder row and a form row, each naming its own
\* uploaded object, the form row with the mime type of an uploaded file
C19_Witness ==
    \E r1, r2 \in feedback :
        /\ "thermal_sensation" \notin DOMAIN r1
        /\ "thermal_sensation" \in DOMAIN r2
        /\ r1.audio_path \in bucket
        /\ r2.audio_path \in bucket
        /\ r2.audio_mime = "audio/mpeg"


(***************************************************************************)
(* Claims on the precedence of the three clothing inputs                   *)
(***************************************************************************)
C20_State ==
    /\ ChosenItems # <<>> => clo_value = clo_itemized
    /\ (ChosenItems = <<>> /\ clo_cont # 0) => clo_value = clo_cont
    /\ (ChosenItems = <<>> /\ clo_cont = 0) => clo_value = band_to_value(clo_band_sel)

\* with no garment ticked and the slider off 0.0, picking another band
\* leaves clo_value as it is
C20_Step ==
    (clo_band_sel' # clo_band_sel /\ ChosenItems' = <<>> /\ clo_cont' # 0) =>
        clo_value' = clo_value

\* C20: the final clo value follows itemized > continuous > band: with a
\* garment ticked it is the itemized value, with none ticked it is the
\* slider's value, and the band's value is used only when the slider is 0.0
C20_PrecedenceItemizedContinuousBand == []C20_State /\ [][C20_Step]_vars

\* no garment ticked, the slider at 0.0 and the top band picked: the band
\* decides
C20_Witness ==
    /\ ChosenItems = <<>>
    /\ clo_cont = 0
    /\ clo_band_sel = ">3.5 clo"
    /\ clo_value = 360


(***************************************************************************)
(* Claims on the clothing description of the submitted record              *)
(***************************************************************************)
\* the record lists garments: its map holds each listed garment's table
\* value ("+5%" for the accessory) and their exact total rounds to clo_value
ItemsConsistent(r) ==
    /\ DOMAIN r.clothing_detail_map = Range(r.clothing_detail)
    /\ \A k \in Range(r.clothing_detail) :
           r.clothing_detail_map[k] = (IF k = ACCESSORY THEN "+5%" ELSE CLO_ITEMS[k])
    /\ (100 * r.clo_value - ExactClo(r.clothing_detail)) \in -50..50

\* the record names a band: its map is empty and clo_value is the band's
\* table value
BandConsistent(r) ==
    /\ r.clothing_detail_map = <<>>
    /\ Len(r.clothing_detail) = 1
    /\ r.clothing_detail[1] \in BAND_KEYS
    /\ r.clo_value = band_to_value(r.clothing_detail[1])

\* C21: in every submitted record the clothing description is consistent
\* with clo_value: with garments selected, clothing_detail lists them and
\* clothing_detail_map holds their values, whose sum (times 1.05 with the
\* accessory) rounds to clo_value; with none selected, clothing_detail_map
\* is empty and clo_value is the table value of the band clothing_detail names
C21_ClothingDescribesCloValue ==
    \A r \in FormRecords :
        IF Range(r.clothing_detail) \subseteq DOMAIN CLO_ITEMS /\ r.clothing_detail # <<>>
        THEN ItemsConsistent(r)
        ELSE BandConsistent(r)

\* the half of C21 on records that list garments
C21_ItemsHalf ==
    \A r \in FormRecords :
        (Range(r.clothing_detail) \subseteq DOMAIN CLO_ITEMS /\ r.clothing_detail # <<>>)
            => ItemsConsistent(r)


(***************************************************************************)
(* Claims on the manual test insert of the sensors page                    *)
(***************************************************************************)
SENSORS_PAGE == "02_Sensors.py"

\* the entry that the fetch of a run at time t leaves, having found entry c
AfterFetch(c, table, t) ==
    IF fresh(c, t) THEN c ELSE Cached(top_rows(table, MaxFetched), t)

\* after a run whose insert returned, the sensors entry is gone until the
\* next run
C22_State ==
    (view.page = SENSORS_PAGE /\ view.cleared) =>
        /\ "Row inserted" \in view.shown
        /\ cache.sensors = MISS
        /\ \E r \in sensor_readings : r.ts = view.at

C22_Step ==
    /\ sensor_readings' # sensor_readings =>
           /\ view'.page = SENSORS_PAGE
           /\ view'.cleared
           /\ "Row inserted" \in view'.shown
           /\ "Insert failed" \notin view'.shown
           /\ sensor_readings \subseteq sensor_readings'
           /\ Cardinality(sensor_readings' \ sensor_readings) = 1
           /\ cache'.sensors = MISS
    /\ (view' # view /\ view'.page = SENSORS_PAGE /\ "Insert failed" \in view'.shown) =>
           /\ sensor_readings' = sensor_readings
           /\ ~view'.cleared
           /\ cache'.sensors = AfterFetch(cache.sensors, sensor_readings, now)
    /\ (view.page = SENSORS_PAGE /\ view.cleared /\ view' # view) =>
           /\ view'.called
           /\ ~(view'.outcome = "aborted" /\ view'.uncaught = "select") =>
                  /\ view'.df = top_rows(sensor_readings, MaxFetched)
                  /\ \A r \in sensor_readings : r.ts = view.at => r \in view'.df

\* C22: on the sensors page a test insert that returned clears the read
\* cache, so the next fetch goes to the backend and its result holds the
\* new row, also when less than 60 seconds have passed since the last
\* fetch; a test insert that raised shows an error, leaves the cache as the
\* run's fetch left it and adds no row
C22_TestInsertClearsCache == []C22_State /\ [][C22_Step]_vars

\* the run that follows a test insert by less than 60 seconds has gone to
\* the backend and lists the new row
C22_Witness ==
    /\ view.page = SENSORS_PAGE
    /\ view.outcome = "rendered"
    /\ view.called
    /\ ~view.cleared
    /\ \E r \in view.df : r \notin SENSOR_ROWS /\ view.at - r.ts < TTL


\* both variants of the sensors page
SENSOR_PAGES == {SENSORS_PAGE, "pages/02_Sensors.py"}

\* the run reached the "Manual test insert" expander, the last block of
\* either script
TesterDrawn == view.outcome = "rendered"

\* C23: on either variant of the sensors page the manual test insert is
\* drawn in every page state whose fetch did not raise, in particular when
\* the fetch returned no rows
C23_TesterAlwaysReachable ==
    (view.page \in SENSOR_PAGES /\ view.uncaught # "select") => TesterDrawn


(***************************************************************************)
(* Claims on the playback pages                                            *)
(***************************************************************************)
PLAYBACK_PAGES == {"pages/03_Voice_Playback.py", "pages/04_Voice_Playback.py"}
AUDIO_ERRORS == {"Could not load audio", "Could not create signed URL"}

\* what the claim asks of the expander of one row, u being what the row's
\* URL calls did and a what the expander shows
UrlFallback(u, a) ==
    /\ u.signed = "url" => a = "audio(signed)"
    /\ (u.signed # "url" /\ u.public = "url") =>
           a \in {"audio(public)", "audio(public) + caption"}
    /\ a \in AUDIO_ERRORS <=> (u.signed # "url" /\ u.public = "raise")

\* every row of the query has its expander, and each follows UrlFallback
FallbackOn(p) ==
    (view.page = p /\ view.outcome = "rendered") =>
        /\ DOMAIN view.audio = {r.id : r \in view.df}
        /\ \A id \in DOMAIN view.audio : UrlFallback(view.urls[id], view.audio[id])

\* C24: on the playback page, for each listed row with an audio_path the
\* signed URL is preferred; the public URL is used when the signed-URL call
\* returns no URL or raises; an error is shown for that row only when the
\* public-URL attempt fails too; and a failure for one row never keeps the
\* other rows from being rendered
C24_SignedThenPublicUrl == \A p \in PLAYBACK_PAGES : FallbackOn(p)

\* the part of C24 on pages/03_Voice_Playback.py
C24_Playback03 == FallbackOn("pages/03_Voice_Playback.py")

====
